---- MODULE Spec2Model ----
(***************************************************************************)
(* FlowMap / FlowMap-r K-LUT mapping (flowmap-r.py): cut enumeration,      *)
(* depth labelling, area-flow recovery and cover construction, modelled    *)
(* as the pipeline of map_with_area_optimized_flow over bounded graphs.    *)
(***************************************************************************)
EXTENDS Integers, Sequences, FiniteSets, TLC

(* ------------------------------ bounds -------------------------------- *)
MaxNodes == 4
MaxFanin == 2
MaxK == 3
MaxCutLimit == 2
MaxTopoNodes == 3
MaxTopoEdges == 4

(* --------------------------- node identifiers ------------------------- *)
\* Node identifiers are strings.  SortedNames lists every identifier the
\* model uses in the order Python compares the strings, Rank is the position.
SortedNames ==
  << "a", "and1", "and2", "b", "c", "d", "f", "g", "h",
     "n0", "n1", "n2", "n3", "n4", "n5", "n6", "n7",
     "or1", "out", "p", "q", "v", "w", "x", "xor1", "y", "z" >>

GenNames == << "n0", "n1", "n2", "n3", "n4", "n5", "n6", "n7" >>

RankOf ==
  [n \in { SortedNames[i] : i \in 1..Len(SortedNames) } |->
     CHOOSE i \in 1..Len(SortedNames) : SortedNames[i] = n]

Rank(n) == RankOf[n]

SeqToSet(s) == { s[i] : i \in 1..Len(s) }

\* Optional values: <<>> is None, <<x>> is the value x.
None == << >>
Some(x) == << x >>

(* ------------------------------- graphs ------------------------------- *)
\* A graph is a Python dict node -> [fanins]: the keys in insertion order
\* and the fanin list of each key.
IndexOf(keys, n) == CHOOSE i \in 1..Len(keys) : keys[i] = n

MkGraph(keys, fins) ==
  [keys |-> keys,
   fanins |-> [n \in SeqToSet(keys) |-> fins[IndexOf(keys, n)]]]

Reverse(s) == [i \in 1..Len(s) |-> s[Len(s) + 1 - i]]

\* The names of S in ascending order (Python's sorted on a set of names).
RECURSIVE sorted(_)
sorted(S) ==
  IF S = {} THEN << >>
  ELSE LET m == CHOOSE x \in S : \A y \in S : Rank(x) <= Rank(y)
       IN << m >> \o sorted(S \ { m })

\* Fanin lists of node i: at most MaxFanin distinct earlier names, ascending.
FaninSeqs(i) ==
  { sorted(S) : S \in { T \in SUBSET { GenNames[j] : j \in 1..(i - 1) } :
                          Cardinality(T) <= MaxFanin } }

RECURSIVE GenFanins(_)
GenFanins(n) ==
  IF n = 0 THEN { << >> }
  ELSE { Append(fs, s) : fs \in GenFanins(n - 1), s \in FaninSeqs(n) }

\* Every graph of at most MaxNodes nodes n0, n1, ... whose fanins are earlier
\* names: keys inserted in name order with ascending fanin lists, or keys
\* inserted in reverse name order with descending fanin lists.
GenGraphs ==
  UNION { { MkGraph(SubSeq(GenNames, 1, n), fs) : fs \in GenFanins(n) }
          \cup { MkGraph(Reverse(SubSeq(GenNames, 1, n)),
                         Reverse([i \in 1..n |-> Reverse(fs[i])])) :
                   fs \in GenFanins(n) }
          : n \in 0..MaxNodes }

\* The graphs of the demo driver and of the documented scenarios.
GraphS1 ==
  MkGraph(<< "a", "b", "c", "and1", "or1" >>,
          << << >>, << >>, << >>, << "a", "b" >>, << "and1", "c" >> >>)

GraphS3 ==
  MkGraph(<< "a", "b", "c", "d", "and1", "and2", "xor1", "or1", "out" >>,
          << << >>, << >>, << >>, << >>, << "a", "b" >>, << "c", "d" >>,
             << "and1", "and2" >>, << "and1", "c" >>, << "xor1", "or1" >> >>)

GraphS5 == MkGraph(<< "x", "y" >>, << << "y" >>, << "x" >> >>)

GraphS6 ==
  MkGraph(<< "a", "b", "c", "g" >>,
          << << >>, << >>, << >>, << "a", "b", "c" >> >>)

\* A reconvergent graph in which the best cut of v mixes the fanin p with a
\* cut of the fanin g.
GraphMixed ==
  MkGraph(<< "a", "b", "c", "p", "g", "v" >>,
          << << >>, << >>, << >>, << "a", "b" >>, << "c", "p" >>,
             << "p", "g" >> >>)

\* Repeated fanins and keys inserted fanout-first.
GraphDup ==
  MkGraph(<< "h", "g", "a", "b" >>,
          << << "g", "g", "a" >>, << "a", "b", "a" >>, << >>, << >> >>)

\* Two cuts of v, {c,q} and {c,p}, of equal depth and equal area-flow cost;
\* the one enumerated first is the later one in the sort key.
GraphTie ==
  MkGraph(<< "a", "b", "c", "q", "p", "v" >>,
          << << >>, << >>, << >>, << "a", "b" >>, << "q" >>,
             << "c", "p" >> >>)

Graphs ==
  GenGraphs \cup { GraphS1, GraphS3, GraphS5, GraphS6, GraphMixed, GraphDup,
                   GraphTie }

\* Arguments of topo_sort: n keys n0, n1, ... and s fanin entries in all, each
\* any key (the node itself included, repeats allowed).  flat is the fanin
\* lists laid end to end and c[i] the position where the list of key i ends.
TopoCuts(n, s) ==
  { c \in [1..n -> 0..s] :
      /\ \A i \in 1..(n - 1) : c[i] <= c[i + 1]
      /\ n = 0 \/ c[n] = s }

TopoGraph(n, c, flat) ==
  MkGraph(SubSeq(GenNames, 1, n),
          [i \in 1..n |->
             SubSeq(flat, (IF i = 1 THEN 0 ELSE c[i - 1]) + 1, c[i])])

(* ---------------------------- DAG utilities --------------------------- *)
KeySet(g) == SeqToSet(g.keys)

\* Number of occurrences of u in the list s.
Count(s, u) == Cardinality({ i \in 1..Len(s) : s[i] = u })

\* [v] * k
Repeat(v, k) == [i \in 1..k |-> v]

\* fanouts[u]: v is appended once per occurrence of u in graph[v], the keys
\* v visited in insertion order.
RECURSIVE FanoutsOf(_, _, _)
FanoutsOf(g, u, i) ==
  IF i > Len(g.keys) THEN << >>
  ELSE Repeat(g.keys[i], Count(g.fanins[g.keys[i]], u))
       \o FanoutsOf(g, u, i + 1)

Fanouts(g) == [u \in KeySet(g) |-> FanoutsOf(g, u, 1)]

\* The inner loop of Kahn's algorithm over fanouts[u].
RECURSIVE Relax(_, _, _)
Relax(ws, indeg, q) ==
  IF ws = << >> THEN [indeg |-> indeg, q |-> q]
  ELSE LET w == Head(ws)
           nd == [indeg EXCEPT ![w] = @ - 1]
       IN Relax(Tail(ws), nd, IF nd[w] = 0 THEN Append(q, w) ELSE q)

RECURSIVE Kahn(_, _, _, _)
Kahn(fo, indeg, q, order) ==
  IF q = << >> THEN order
  ELSE LET u == Head(q)
           r == Relax(fo[u], indeg, Tail(q))
       IN Kahn(fo, r.indeg, r.q, Append(order, u))

\* Variant of topo_sort: the in-degree counts each distinct fanin once.
topo_sort_DistinctIndeg(g) ==
  LET indeg == [n \in KeySet(g) |-> Cardinality(SeqToSet(g.fanins[n]))]
      fo == Fanouts(g)
      q == SelectSeq(g.keys, LAMBDA n : indeg[n] = 0)
      order == Kahn(fo, indeg, q, << >>)
  IN IF Len(order) # Len(g.keys)
     THEN [ok |-> FALSE, order |-> << >>, fanouts |-> fo]
     ELSE [ok |-> TRUE, order |-> order, fanouts |-> fo]

\* topo_sort: [ok |-> FALSE] is the ValueError "Graph is not a DAG".
topo_sort(g) ==
  LET indeg == [n \in KeySet(g) |-> Len(g.fanins[n])]
      fo == Fanouts(g)
      q == SelectSeq(g.keys, LAMBDA n : indeg[n] = 0)
      order == Kahn(fo, indeg, q, << >>)
  IN IF Len(order) # Len(g.keys)
     THEN [ok |-> FALSE, order |-> << >>, fanouts |-> fo]
     ELSE [ok |-> TRUE, order |-> order, fanouts |-> fo]

primary_inputs(g) == { n \in KeySet(g) : Len(g.fanins[n]) = 0 }

detect_outputs(g) ==
  LET all_fins == UNION { SeqToSet(g.fanins[n]) : n \in KeySet(g) }
  IN SelectSeq(g.keys, LAMBDA n : n \notin all_fins)

(* ----------------------------- cut handling --------------------------- *)
\* Variant of Dominates: an equal candidate dominates whatever its position.
Dominates_TiesDropBoth(fs, j, i) ==
  /\ i # j
  /\ fs[j] \subseteq fs[i]

\* Inner test of minimalize_cuts: candidate j makes candidate i redundant.
Dominates(fs, j, i) ==
  /\ i # j
  /\ fs[j] \subseteq fs[i]
  /\ (fs[j] # fs[i] \/ j < i)

dominated(fs, i) == \E j \in 1..Len(fs) : Dominates(fs, j, i)

\* Second loop of minimalize_cuts: drop repeats, keep the first occurrence.
RECURSIVE Dedup(_, _, _)
Dedup(keep, out, seen) ==
  IF keep = << >> THEN out
  ELSE IF Head(keep) \in seen THEN Dedup(Tail(keep), out, seen)
  ELSE Dedup(Tail(keep), Append(out, Head(keep)), seen \cup { Head(keep) })

RECURSIVE KeepLoop(_, _, _)
KeepLoop(fs, i, keep) ==
  IF i > Len(fs) THEN keep
  ELSE KeepLoop(fs, i + 1, IF dominated(fs, i) THEN keep
                           ELSE Append(keep, fs[i]))

minimalize_cuts(cuts) == Dedup(KeepLoop(cuts, 1, << >>), << >>, {})

\* itertools.product(*pools): tuples in lexicographic order, the first pool
\* varying slowest.
RECURSIVE product(_)
RECURSIVE PrefixAll(_, _, _)
PrefixAll(pool, rest, i) ==
  IF i > Len(pool) THEN << >>
  ELSE [k \in 1..Len(rest) |-> << pool[i] >> \o rest[k]]
       \o PrefixAll(pool, rest, i + 1)

product(pools) ==
  IF pools = << >> THEN << << >> >>
  ELSE PrefixAll(Head(pools), product(Tail(pools)), 1)

\* set().union(*combo)
UnionOf(combo) == UNION SeqToSet(combo)

\* Variant of Feasible: the size test is off by one.
Feasible_OffByOne(U, K) == Cardinality(U) <= K + 1

\* The size test applied to a union and to the fanin cut.
Feasible(U, K) == Cardinality(U) <= K

\* Lexicographic comparison of two tuples of names.
RECURSIVE TupleLess(_, _)
TupleLess(s, t) ==
  IF s = << >> THEN t # << >>
  ELSE IF t = << >> THEN FALSE
  ELSE IF Rank(Head(s)) # Rank(Head(t)) THEN Rank(Head(s)) < Rank(Head(t))
  ELSE TupleLess(Tail(s), Tail(t))

\* The sort key (len(s), tuple(sorted(s))) of the cut_limit truncation.
CutKeyLess(s, t) ==
  \/ Cardinality(s) < Cardinality(t)
  \/ Cardinality(s) = Cardinality(t) /\ TupleLess(sorted(s), sorted(t))

\* list.sort(key=...): stable insertion into an already sorted list.
RECURSIVE InsertCut(_, _)
InsertCut(c, srt) ==
  IF srt = << >> THEN << c >>
  ELSE IF CutKeyLess(c, Head(srt)) THEN << c >> \o srt
  ELSE << Head(srt) >> \o InsertCut(c, Tail(srt))

RECURSIVE SortCuts(_)
SortCuts(cs) ==
  IF cs = << >> THEN << >>
  ELSE InsertCut(cs[Len(cs)], SortCuts(SubSeq(cs, 1, Len(cs) - 1)))

\* cand[:cut_limit] after the sort, when the limit is set and exceeded.
ApplyLimit(cand, cut_limit) ==
  IF cut_limit # None /\ Len(cand) > cut_limit[1]
  THEN SubSeq(SortCuts(cand), 1, cut_limit[1])
  ELSE cand

\* Variant of Candidates: the fanin cut is added without the size test.
Candidates_TrivAlways(g, K, v, node_cuts) ==
  LET fins == g.fanins[v]
      pools == [i \in 1..Len(fins) |-> node_cuts[fins[i]]]
      combos == product(pools)
      unions == [i \in 1..Len(combos) |-> UnionOf(combos[i])]
      cand == SelectSeq(unions, LAMBDA U : Cardinality(U) <= K)
  IN Append(cand, SeqToSet(fins))

\* The candidate list of a non-PI node before pruning.
Candidates(g, K, v, node_cuts) ==
  LET fins == g.fanins[v]
      pools == [i \in 1..Len(fins) |-> node_cuts[fins[i]]]
      combos == product(pools)
      unions == [i \in 1..Len(combos) |-> UnionOf(combos[i])]
      cand == SelectSeq(unions, LAMBDA U : Feasible(U, K))
      triv == SeqToSet(fins)
  IN IF Feasible(triv, K) THEN Append(cand, triv) ELSE cand

\* Body of the loop of enumerate_minimal_kcuts for a non-PI node: cand as
\* collected, as pruned by minimalize_cuts, and as stored in node_cuts[v].
CutsOfNode(g, K, cut_limit, v, node_cuts) ==
  LET cand == Candidates(g, K, v, node_cuts)
      kept == minimalize_cuts(cand)
  IN [cand |-> cand, pruned |-> kept, cuts |-> ApplyLimit(kept, cut_limit)]

\* The loop over topo; st.cand and st.pruned log the two earlier values of
\* the local cand of each non-PI node.
RECURSIVE EnumLoop(_, _, _, _, _)
EnumLoop(g, K, cut_limit, topo, st) ==
  IF topo = << >> THEN st
  ELSE LET v == Head(topo)
       IN IF v \in primary_inputs(g)
          THEN EnumLoop(g, K, cut_limit, Tail(topo),
                        [st EXCEPT !.node_cuts = @ @@ (v :> << { v } >>)])
          ELSE LET r == CutsOfNode(g, K, cut_limit, v, st.node_cuts)
               IN EnumLoop(g, K, cut_limit, Tail(topo),
                           [node_cuts |-> st.node_cuts @@ (v :> r.cuts),
                            cand |-> st.cand @@ (v :> r.cand),
                            pruned |-> st.pruned @@ (v :> r.pruned)])

\* enumerate_minimal_kcuts: err is "InvalidK" (K < 1) or "NotDAG" (topo_sort
\* raised), otherwise node_cuts is the map node -> list of cuts.
enumerate_minimal_kcuts(g, K, cut_limit) ==
  LET empty == [node_cuts |-> << >>, cand |-> << >>, pruned |-> << >>]
  IN IF K < 1 THEN [err |-> "InvalidK", st |-> empty]
     ELSE LET t == topo_sort(g)
          IN IF ~t.ok THEN [err |-> "NotDAG", st |-> empty]
             ELSE [err |-> "",
                   st |-> EnumLoop(g, K, cut_limit, t.order, empty)]

(* ------------------------- FlowMap depth labels ----------------------- *)
MaxOf(S) == CHOOSE m \in S : \A x \in S : x <= m
MinOf(S) == CHOOSE m \in S : \A x \in S : m <= x

\* Variant of DepthVia: the LUT at the node itself is not counted.
DepthVia_NoIncrement(C, labels) ==
  IF C # {} THEN MaxOf({ labels[u] : u \in C }) ELSE 1

\* d = 1 + max(labels[u] for u in C) if C else 1
DepthVia(C, labels) ==
  IF C # {} THEN 1 + MaxOf({ labels[u] : u \in C }) ELSE 1

\* Variant of LabelCuts: the depth of the last cut replaces the minimum.
RECURSIVE LabelCuts_LastWins(_, _, _, _)
LabelCuts_LastWins(cs, labels, cd, best) ==
  IF cs = << >> THEN [cd |-> cd, best |-> best]
  ELSE LET C == Head(cs)
           d == 1 + MaxOf({ labels[u] : u \in C })
       IN LabelCuts_LastWins(Tail(cs), labels, (C :> d) @@ cd, Some(d))

\* Inner loop of flowmap_labels over node_cuts[v]; best = None is << >>.
RECURSIVE LabelCuts(_, _, _, _)
LabelCuts(cs, labels, cd, best) ==
  IF cs = << >> THEN [cd |-> cd, best |-> best]
  ELSE LET C == Head(cs)
           d == DepthVia(C, labels)
       IN LabelCuts(Tail(cs), labels, (C :> d) @@ cd,
                    IF best = None \/ d < best[1] THEN Some(d) ELSE best)

\* Variant of LabelLoop: a node without cuts gets label 1 instead of the
\* error.
RECURSIVE LabelLoop_NoRaise(_, _, _, _, _)
LabelLoop_NoRaise(g, topo, node_cuts, labels, cut_depth) ==
  IF topo = << >>
  THEN [err |-> "", at |-> "", labels |-> labels, cut_depth |-> cut_depth]
  ELSE LET v == Head(topo)
       IN IF v \in primary_inputs(g)
          THEN LabelLoop_NoRaise(g, Tail(topo), node_cuts, labels @@ (v :> 0),
                                 [cut_depth EXCEPT ![v] = ({ v } :> 0) @@ @])
          ELSE LET r == LabelCuts(node_cuts[v], labels, cut_depth[v], Some(1))
               IN LabelLoop_NoRaise(g, Tail(topo), node_cuts,
                                    labels @@ (v :> r.best[1]),
                                    [cut_depth EXCEPT ![v] = r.cd])

RECURSIVE LabelLoop(_, _, _, _, _)
LabelLoop(g, topo, node_cuts, labels, cut_depth) ==
  IF topo = << >>
  THEN [err |-> "", at |-> "", labels |-> labels, cut_depth |-> cut_depth]
  ELSE LET v == Head(topo)
       IN IF v \in primary_inputs(g)
          THEN LabelLoop(g, Tail(topo), node_cuts, labels @@ (v :> 0),
                         [cut_depth EXCEPT ![v] = ({ v } :> 0) @@ @])
          ELSE LET r == LabelCuts(node_cuts[v], labels, cut_depth[v], None)
               IN IF r.best = None
                  THEN [err |-> "NoFeasibleCut", at |-> v,
                        labels |-> << >>, cut_depth |-> << >>]
                  ELSE LabelLoop(g, Tail(topo), node_cuts,
                                 labels @@ (v :> r.best[1]),
                                 [cut_depth EXCEPT ![v] = r.cd])

\* flowmap_labels with node_cuts supplied: err "NoFeasibleCut" is the
\* RuntimeError raised at node `at`.
flowmap_labels(g, K, node_cuts) ==
  LET t == topo_sort(g)
  IN IF ~t.ok
     THEN [err |-> "NotDAG", at |-> "", labels |-> << >>, cut_depth |-> << >>]
     ELSE LabelLoop(g, t.order, node_cuts, << >>,
                    [v \in KeySet(g) |-> << >>])

(* --------------------------- area-flow recovery ----------------------- *)
\* Costs are floats in the source; here they are the exact rationals
\* << numerator, denominator >> in lowest terms that the float operations
\* approximate.
RECURSIVE GCD(_, _)
GCD(a, b) == IF b = 0 THEN a ELSE GCD(b, a % b)

Norm(n, d) == LET k == GCD(n, d) IN << n \div k, d \div k >>
RAdd(x, y) == Norm(x[1] * y[2] + y[1] * x[2], x[2] * y[2])
RDiv(x, k) == Norm(x[1], x[2] * k)
RLess(x, y) == x[1] * y[2] < y[1] * x[2]
RZero == Norm(0, 1)
ROne == Norm(1, 1)

\* compute_refcounts
compute_refcounts(g) ==
  LET fo == topo_sort(g).fanouts
  IN [n \in KeySet(g) |-> IF Len(fo[n]) > 1 THEN Len(fo[n]) ELSE 1]

\* cost = 1.0 + sum of area_flow[u] / refcnt[u] over the non-PI u of C
RECURSIVE CutCost(_, _, _, _)
CutCost(C, PIs, area_flow, refcnt) ==
  IF C = {} THEN ROne
  ELSE LET u == CHOOSE x \in C : TRUE
           rest == CutCost(C \ { u }, PIs, area_flow, refcnt)
       IN IF u \in PIs THEN rest
          ELSE RAdd(rest, RDiv(area_flow[u], refcnt[u]))

\* Variant of Admissible: the comparison of the filter is inverted.
Admissible_Inverted(d, lbl) == d > lbl

\* The depth-preserving filter: the cut may be chosen at v.
Admissible(d, lbl) == ~(d > lbl)

\* Inner loop of area_recovery over node_cuts[v]; best = None is << >>.
RECURSIVE BestCut(_, _, _, _, _, _, _)
BestCut(cs, cdv, lbl, PIs, area_flow, refcnt, best) ==
  IF cs = << >> THEN best
  ELSE LET C == Head(cs)
           cost == CutCost(C, PIs, area_flow, refcnt)
       IN IF ~Admissible(cdv[C], lbl)
          THEN BestCut(Tail(cs), cdv, lbl, PIs, area_flow, refcnt, best)
          ELSE BestCut(Tail(cs), cdv, lbl, PIs, area_flow, refcnt,
                       IF best = None \/ RLess(cost, best[1].cost)
                       THEN Some([cost |-> cost, cut |-> C]) ELSE best)

\* min(cands, key=proxy): the first candidate of least proxy.
RECURSIVE MinByProxy(_, _, _, _, _)
MinByProxy(cands, PIs, area_flow, refcnt, best) ==
  IF cands = << >> THEN best
  ELSE LET C == Head(cands)
           cost == CutCost(C, PIs, area_flow, refcnt)
       IN MinByProxy(Tail(cands), PIs, area_flow, refcnt,
                     IF best = None \/ RLess(cost, best[1].cost)
                     THEN Some([cost |-> cost, cut |-> C]) ELSE best)

\* The fallback branch: among the cuts of minimum recorded depth.
Fallback(cs, cdv, PIs, area_flow, refcnt) ==
  LET min_d == MinOf({ cdv[C] : C \in DOMAIN cdv })
      cands == SelectSeq(cs, LAMBDA C : cdv[C] = min_d)
  IN MinByProxy(cands, PIs, area_flow, refcnt, None)

RECURSIVE AreaLoop(_, _, _, _, _, _, _, _, _)
AreaLoop(g, topo, labels, node_cuts, cut_depth, refcnt, area_flow, bca, fb) ==
  IF topo = << >>
  THEN [best_cut_area |-> bca, area_flow |-> area_flow, fallback |-> fb]
  ELSE LET v == Head(topo)
           PIs == primary_inputs(g)
       IN IF v \in PIs
          THEN AreaLoop(g, Tail(topo), labels, node_cuts, cut_depth, refcnt,
                        area_flow @@ (v :> RZero), bca @@ (v :> { v }), fb)
          ELSE LET b == BestCut(node_cuts[v], cut_depth[v], labels[v], PIs,
                                area_flow, refcnt, None)
                   r == IF b # None THEN b
                        ELSE Fallback(node_cuts[v], cut_depth[v], PIs,
                                      area_flow, refcnt)
               IN AreaLoop(g, Tail(topo), labels, node_cuts, cut_depth,
                           refcnt, area_flow @@ (v :> r[1].cost),
                           bca @@ (v :> r[1].cut),
                           IF b = None THEN fb \cup { v } ELSE fb)

\* area_recovery; fallback is the set of nodes that took the fallback branch.
area_recovery(g, K, labels, node_cuts, cut_depth) ==
  AreaLoop(g, topo_sort(g).order, labels, node_cuts, cut_depth,
           compute_refcounts(g), << >>, << >>, {})

(* ------------------------- LUT cover construction --------------------- *)
\* place(v) of build_cover; st is [covered, LUTs].
RECURSIVE place(_, _, _, _, _)
RECURSIVE PlaceAll(_, _, _, _, _)

\* Variant of place: a node already covered is placed again.
place_NoCoveredTest(v, g, chosen_cut, labels, st) ==
  IF v \in primary_inputs(g) THEN st
  ELSE LET C == chosen_cut[v]
           lut == [output |-> v, inputs |-> sorted(C), level |-> labels[v]]
       IN PlaceAll(SelectSeq(sorted(C), LAMBDA u : u \notin primary_inputs(g)),
                   g, chosen_cut, labels,
                   [covered |-> st.covered \cup { v },
                    LUTs |-> Append(st.LUTs, lut)])

\* Variant of place: the back-trace follows the fanins, not the chosen cut.
place_FollowsFanins(v, g, chosen_cut, labels, st) ==
  IF v \in st.covered \/ v \in primary_inputs(g) THEN st
  ELSE LET C == chosen_cut[v]
           lut == [output |-> v, inputs |-> sorted(C), level |-> labels[v]]
       IN PlaceAll(SelectSeq(g.fanins[v], LAMBDA u : u \notin primary_inputs(g)),
                   g, chosen_cut, labels,
                   [covered |-> st.covered \cup { v },
                    LUTs |-> Append(st.LUTs, lut)])

\* `for u in C` visits a set; the order does not reach the result, which is
\* sorted by the distinct outputs, so the ascending order stands for it.
place(v, g, chosen_cut, labels, st) ==
  IF v \in st.covered \/ v \in primary_inputs(g) THEN st
  ELSE LET C == chosen_cut[v]
           lut == [output |-> v, inputs |-> sorted(C), level |-> labels[v]]
       IN PlaceAll(SelectSeq(sorted(C), LAMBDA u : u \notin primary_inputs(g)),
                   g, chosen_cut, labels,
                   [covered |-> st.covered \cup { v },
                    LUTs |-> Append(st.LUTs, lut)])

PlaceAll(us, g, chosen_cut, labels, st) ==
  IF us = << >> THEN st
  ELSE PlaceAll(Tail(us), g, chosen_cut, labels,
                place(Head(us), g, chosen_cut, labels, st))

\* The sort key (level, output) of the final LUTs.sort.
LutLess(x, y) ==
  \/ x.level < y.level
  \/ x.level = y.level /\ Rank(x.output) < Rank(y.output)

RECURSIVE InsertLut(_, _)
InsertLut(x, srt) ==
  IF srt = << >> THEN << x >>
  ELSE IF LutLess(x, Head(srt)) THEN << x >> \o srt
  ELSE << Head(srt) >> \o InsertLut(x, Tail(srt))

RECURSIVE SortLuts(_)
SortLuts(ls) ==
  IF ls = << >> THEN << >>
  ELSE InsertLut(ls[Len(ls)], SortLuts(SubSeq(ls, 1, Len(ls) - 1)))

build_cover(g, chosen_cut, labels, outputs) ==
  LET outs == IF outputs = None THEN detect_outputs(g) ELSE outputs[1]
  IN SortLuts(PlaceAll(outs, g, chosen_cut, labels,
                       [covered |-> {}, LUTs |-> << >>]).LUTs)

(* ------------------------------ the pipeline -------------------------- *)
VARIABLES graph, K, cut_limit, outputs, pc, err, errnode,
          cand, pruned, node_cuts, labels, cut_depth, best_cut_area, area_flow,
          fallback, LUTs, topo_order, topo_fanouts

vars == << graph, K, cut_limit, outputs, pc, err, errnode,
           cand, pruned, node_cuts, labels, cut_depth, best_cut_area, area_flow,
           fallback, LUTs, topo_order, topo_fanouts >>

\* outputs=None or a caller-supplied list of nodes of the graph: no node, any
\* one node, or two gates (possibly the same gate twice).
OutputChoices(g) ==
  LET gates == KeySet(g) \ primary_inputs(g)
  IN { None } \cup { Some(<< >>) }
     \cup { Some(<< n >>) : n \in KeySet(g) }
     \cup { Some(<< nm[1], nm[2] >>) :
              nm \in { x \in gates \X gates : Rank(x[1]) <= Rank(x[2]) } }

\* A call map_with_area_optimized_flow(graph, K, outputs, cut_limit).
Init ==
  /\ graph \in Graphs
  /\ K \in 0..MaxK
  /\ cut_limit \in { None } \cup { Some(n) : n \in 1..MaxCutLimit }
  /\ outputs = None
  /\ pc = "start"
  /\ err = ""
  /\ errnode = ""
  /\ cand = << >>
  /\ pruned = << >>
  /\ node_cuts = << >>
  /\ labels = << >>
  /\ cut_depth = << >>
  /\ best_cut_area = << >>
  /\ area_flow = << >>
  /\ fallback = {}
  /\ LUTs = << >>
  /\ topo_order = << >>
  /\ topo_fanouts = << >>

\* node_cuts = enumerate_minimal_kcuts(graph, K, cut_limit=cut_limit)
Enumerate ==
  /\ pc = "start"
  /\ \E r \in { enumerate_minimal_kcuts(graph, K, cut_limit) } :
        /\ err' = r.err
        /\ node_cuts' = r.st.node_cuts
        /\ cand' = r.st.cand
        /\ pruned' = r.st.pruned
        /\ pc' = IF r.err = "" THEN "enumerated" ELSE "error"
  /\ UNCHANGED << topo_order, topo_fanouts, graph, K, cut_limit,
                  outputs, errnode, labels, cut_depth,
                  best_cut_area, area_flow, fallback, LUTs >>

\* labels, node_cuts, cut_depth = flowmap_labels(graph, K, node_cuts)
Label ==
  /\ pc = "enumerated"
  /\ \E r \in { flowmap_labels(graph, K, node_cuts) } :
        /\ err' = r.err
        /\ errnode' = r.at
        /\ labels' = r.labels
        /\ cut_depth' = r.cut_depth
        /\ pc' = IF r.err = "" THEN "labelled" ELSE "error"
  /\ UNCHANGED << topo_order, topo_fanouts, graph, K, cut_limit,
                  outputs, cand, pruned, node_cuts,
                  best_cut_area,
                  area_flow, fallback, LUTs >>

\* best_cut_area, area_flow = area_recovery(graph, K, labels, node_cuts, cut_depth)
AreaRecovery ==
  /\ pc = "labelled"
  /\ \E r \in { area_recovery(graph, K, labels, node_cuts, cut_depth) } :
        /\ best_cut_area' = r.best_cut_area
        /\ area_flow' = r.area_flow
        /\ fallback' = r.fallback
  /\ pc' = "recovered"
  /\ UNCHANGED << topo_order, topo_fanouts, graph, K, cut_limit,
                  outputs, err, errnode, cand, pruned,
                  node_cuts,
                  labels, cut_depth, LUTs >>

\* LUTs = build_cover(graph, best_cut_area, labels, outputs=outputs)
BuildCover ==
  /\ pc = "recovered"
  /\ \E outs \in OutputChoices(graph) :
       /\ outputs' = outs
       /\ LUTs' = build_cover(graph, best_cut_area, labels, outs)
  /\ pc' = "done"
  /\ UNCHANGED << topo_order, topo_fanouts, graph, K, cut_limit,
                  err, errnode, cand, pruned, node_cuts,
                  labels,
                  cut_depth, best_cut_area, area_flow, fallback >>

Next == Enumerate \/ Label \/ AreaRecovery \/ BuildCover

Spec == Init /\ [][Next]_vars

(* --------------------------- topo_sort on its own --------------------- *)
\* A call topo_sort(graph) on any graph of at most MaxTopoNodes keys and
\* MaxTopoEdges fanin entries whose fanins are keys, cyclic or not, or on a
\* documented graph.
InitTopo ==
  /\ \/ \E n \in 0..MaxTopoNodes : \E s \in 0..MaxTopoEdges :
          \E c \in TopoCuts(n, s) :
            \E flat \in [1..s -> { GenNames[j] : j \in 1..n }] :
              graph = TopoGraph(n, c, flat)
     \/ graph \in { GraphS3, GraphS5, GraphDup }
  /\ K = 1
  /\ cut_limit = None
  /\ outputs = None
  /\ pc = "start"
  /\ err = ""
  /\ errnode = ""
  /\ cand = << >>
  /\ pruned = << >>
  /\ node_cuts = << >>
  /\ labels = << >>
  /\ cut_depth = << >>
  /\ best_cut_area = << >>
  /\ area_flow = << >>
  /\ fallback = {}
  /\ LUTs = << >>
  /\ topo_order = << >>
  /\ topo_fanouts = << >>

\* order, fanouts = topo_sort(graph); the ValueError returns nothing.
TopoSort ==
  /\ pc = "start"
  /\ \E r \in { topo_sort(graph) } :
        /\ err' = IF r.ok THEN "" ELSE "NotDAG"
        /\ topo_order' = r.order
        /\ topo_fanouts' = IF r.ok THEN r.fanouts ELSE << >>
        /\ pc' = IF r.ok THEN "sorted" ELSE "error"
  /\ UNCHANGED << graph, K, cut_limit, outputs, errnode, cand, pruned,
                  node_cuts, labels, cut_depth, best_cut_area, area_flow,
                  fallback, LUTs >>

NextTopo == TopoSort

TopoSpec == InitTopo /\ [][NextTopo]_vars

(* ------------------------------ properties ---------------------------- *)
PIs == primary_inputs(graph)

NonPIs == KeySet(graph) \ PIs

\* enumerate_minimal_kcuts has returned a cut map.
CutsReady == pc # "start" /\ err \notin { "InvalidK", "NotDAG" }

\* flowmap_labels has returned labels and cut_depth.
LabelsReady == pc \in { "labelled", "recovered", "done" }

CutSet(v) == SeqToSet(node_cuts[v])

\* Every path from a primary input to v contains a node of C.
RECURSIVE Blocked(_, _)
Blocked(v, C) ==
  \/ v \in C
  \/ /\ graph.fanins[v] # << >>
     /\ \A u \in SeqToSet(graph.fanins[v]) : Blocked(u, C)

\* The nodes from which v is reachable along fanin edges (v excluded).
RECURSIVE Cone(_)
Cone(v) ==
  SeqToSet(graph.fanins[v])
  \cup UNION { Cone(u) : u \in SeqToSet(graph.fanins[v]) }

\* All K-feasible cuts of the non-PI node v.  A cut may be taken inside the
\* fanin cone of v: nodes outside of it lie on no path to v.
AllCuts(v) ==
  { C \in SUBSET Cone(v) :
      C # {} /\ Cardinality(C) <= K /\ Blocked(v, C) }

\* The depth-optimal label of every node: 0 at a PI, otherwise the least
\* 1 + max over a cut, over all K-feasible cuts; -1 when v has none.
RECURSIVE OptLoop(_, _)
OptLoop(topo, opt) ==
  IF topo = << >> THEN opt
  ELSE LET v == Head(topo)
           ds == { 1 + MaxOf({ opt[u] : u \in C }) :
                     C \in { D \in AllCuts(v) : \A u \in D : opt[u] >= 0 } }
           d == IF v \in PIs THEN 0
                ELSE IF ds = {} THEN 0 - 1 ELSE MinOf(ds)
       IN OptLoop(Tail(topo), opt @@ (v :> d))

OptDepth == OptLoop(topo_sort(graph).order, << >>)

\* C1: with cut_limit unset, the label of every node equals its depth-optimal
\* K-LUT depth, the minimum over all K-feasible cuts C of the node of
\* 1 + max over C of the optimal depth, primary inputs at depth 0.
C1_DepthOptimal ==
  (LabelsReady /\ cut_limit = None) =>
    \A v \in KeySet(graph) : labels[v] = OptDepth[v]

\* C2: every cut enumerated for a non-PI node v is non-empty, has at most K
\* nodes, does not contain v and meets every path from a primary input to v;
\* the cut list of a primary input v is exactly [{v}].
C2_CutsAreKFeasibleCuts ==
  CutsReady =>
    /\ \A v \in PIs : node_cuts[v] = << { v } >>
    /\ \A v \in NonPIs : \A C \in CutSet(v) :
         /\ C # {}
         /\ C \subseteq KeySet(graph)
         /\ Cardinality(C) <= K
         /\ v \notin C
         /\ \A u \in SeqToSet(graph.fanins[v]) : Blocked(u, C)

\* C2 witness: some node has two cuts, one of them not its fanin set.
C2_Witness ==
  /\ pc = "enumerated"
  /\ \E v \in NonPIs :
       /\ Len(node_cuts[v]) >= 2
       /\ \E C \in CutSet(v) :
            C # SeqToSet(graph.fanins[v]) /\ Cardinality(C) = K

\* C3: the cut list of every node, with or without cut_limit, holds no two
\* equal entries and no entry that contains another; and every candidate
\* handed to minimalize_cuts contains one of the cuts it keeps.
C3_AntichainAndCoverage ==
  CutsReady =>
    /\ \A v \in KeySet(graph) :
         \A i, j \in 1..Len(node_cuts[v]) :
           i # j => ~(node_cuts[v][i] \subseteq node_cuts[v][j])
    /\ \A v \in NonPIs :
         /\ \A i, j \in 1..Len(pruned[v]) :
              i # j => ~(pruned[v][i] \subseteq pruned[v][j])
         /\ \A c \in SeqToSet(cand[v]) :
              \E k \in SeqToSet(pruned[v]) : k \subseteq c

\* C3 witness: pruning dropped a repeated candidate at some node and a
\* proper superset at some node, and the limit cut some pruned list short.
C3_Witness ==
  /\ pc = "enumerated"
  /\ cut_limit # None
  /\ \E v \in NonPIs :
       \E i, j \in 1..Len(cand[v]) : i # j /\ cand[v][i] = cand[v][j]
  /\ \E v \in NonPIs :
       \E c \in SeqToSet(cand[v]) :
         \E k \in SeqToSet(pruned[v]) : k \subseteq c /\ k # c
  /\ \E w \in NonPIs : Len(node_cuts[w]) < Len(pruned[w])

\* C4: after labelling, a node has label 0 exactly when it is a primary
\* input; the label of a non-PI node is the least 1 + max label over its
\* enumerated cuts; and cut_depth holds that value for every enumerated cut.
C4_LabelRecurrence ==
  LabelsReady =>
    /\ \A v \in KeySet(graph) : (labels[v] = 0) <=> (v \in PIs)
    /\ \A v \in NonPIs :
         /\ CutSet(v) # {}
         /\ labels[v] =
              MinOf({ 1 + MaxOf({ labels[u] : u \in C }) : C \in CutSet(v) })
         /\ DOMAIN cut_depth[v] = CutSet(v)
         /\ \A C \in CutSet(v) :
              cut_depth[v][C] = 1 + MaxOf({ labels[u] : u \in C })

\* C4 witness: a node with two enumerated cuts of different depth.
C4_Witness ==
  /\ pc = "labelled"
  /\ \E v \in NonPIs : \E C, D \in CutSet(v) :
       cut_depth[v][C] < cut_depth[v][D] /\ labels[v] = cut_depth[v][C]

\* C5: area recovery leaves the labels as they are, chooses for every non-PI
\* node one of its enumerated cuts whose recorded depth does not exceed the
\* label, and never takes the fallback branch.
C5_AreaRecoveryPreservesDepth ==
  [][pc = "labelled" =>
       /\ labels' = labels
       /\ fallback' = {}
       /\ \A v \in NonPIs :
            /\ best_cut_area'[v] \in CutSet(v)
            /\ cut_depth[v][best_cut_area'[v]] <= labels[v]]_vars

\* C5 witness: recovery has chosen at a node that also has a deeper,
\* inadmissible enumerated cut.
C5_Witness ==
  /\ pc = "recovered"
  /\ \E v \in NonPIs : \E C \in CutSet(v) :
       /\ cut_depth[v][C] > labels[v]
       /\ cut_depth[v][best_cut_area[v]] = labels[v]

LutOutputs == { LUTs[i].output : i \in 1..Len(LUTs) }

\* The primary outputs build_cover starts from.
POs == IF outputs = None THEN SeqToSet(detect_outputs(graph))
       ELSE SeqToSet(outputs[1])

\* C6: in the returned cover every primary output is a PI or a LUT output,
\* every LUT input is a PI or the output of another LUT, no PI is a LUT
\* output and no node is the output of two LUTs.
C6_CoverClosure ==
  pc = "done" =>
    /\ \A po \in POs : po \in PIs \/ po \in LutOutputs
    /\ \A i \in 1..Len(LUTs) :
         /\ LUTs[i].output \notin PIs
         /\ \A u \in SeqToSet(LUTs[i].inputs) :
              \/ u \in PIs
              \/ \E j \in 1..Len(LUTs) : j # i /\ LUTs[j].output = u
    /\ \A i, j \in 1..Len(LUTs) : i # j => LUTs[i].output # LUTs[j].output

\* C6 witness: two caller-supplied outputs, one of them inside the cover of
\* the other, and a LUT fed by another LUT.
C6_Witness ==
  /\ pc = "done"
  /\ outputs # None
  /\ \E i, j \in 1..Len(LUTs) :
       /\ i # j
       /\ LUTs[j].output \in SeqToSet(LUTs[i].inputs)
       /\ outputs[1] = << LUTs[j].output, LUTs[i].output >>

\* C7: every LUT of the returned cover has at most K inputs, and each of its
\* inputs is a PI or has a label smaller than the label of the LUT's output.
C7_LutWidthAndLevels ==
  pc = "done" =>
    \A i \in 1..Len(LUTs) :
      /\ Len(LUTs[i].inputs) <= K
      /\ \A u \in SeqToSet(LUTs[i].inputs) :
           u \in PIs \/ labels[u] < labels[LUTs[i].output]

\* C7 witness: a LUT with exactly K inputs, one of them a non-PI node.
C7_Witness ==
  /\ pc = "done"
  /\ \E i \in 1..Len(LUTs) :
       /\ Len(LUTs[i].inputs) = K
       /\ \E u \in SeqToSet(LUTs[i].inputs) : u \notin PIs

\* The run of scenario S3 has returned.
S3Done == pc = "done" /\ K = 3 /\ cut_limit = None /\ graph = GraphS3

\* C8 as stated: on S3 with K = 3 the labels are 0 at the PIs, 1 at and1 and
\* and2, 2 at xor1 and or1, 3 at out, and the chosen cut of out is
\* {xor1, or1}.
C8_S3AsStated ==
  S3Done =>
    /\ \A v \in { "a", "b", "c", "d" } : labels[v] = 0
    /\ labels["and1"] = 1 /\ labels["and2"] = 1
    /\ labels["xor1"] = 2 /\ labels["or1"] = 2
    /\ labels["out"] = 3
    /\ best_cut_area["out"] = { "xor1", "or1" }

\* C8 amended: on S3 with K = 3 the labels are 0 at the PIs, 1 at and1, and2
\* and or1, 2 at xor1 and out, and the chosen cut of out is {and1, and2, c}.
C8_S3Amended ==
  S3Done =>
    /\ \A v \in { "a", "b", "c", "d" } : labels[v] = 0
    /\ labels["and1"] = 1 /\ labels["and2"] = 1
    /\ labels["or1"] = 1
    /\ labels["xor1"] = 2
    /\ labels["out"] = 2
    /\ best_cut_area["out"] = { "and1", "and2", "c" }

\* C8 witness: the S3 run has returned with outputs auto-detected.
C8_Witness == S3Done /\ outputs = None /\ Len(LUTs) = 3

\* The graph is the chain n0:[], n1:[n0], ..., nn:[n(n-1)].
IsChain(g) ==
  /\ g.keys # << >>
  /\ Len(g.keys) <= Len(GenNames)
  /\ KeySet(g) = { GenNames[i] : i \in 1..Len(g.keys) }
  /\ g.fanins[GenNames[1]] = << >>
  /\ \A i \in 2..Len(g.keys) : g.fanins[GenNames[i]] = << GenNames[i - 1] >>

ChainLen == Len(graph.keys) - 1

\* C9 as stated: on a chain the labels are 0, 1, ..., n and the cover (with
\* outputs auto-detected) has one LUT per non-PI node.
C9_ChainAsStated ==
  (pc = "done" /\ outputs = None /\ IsChain(graph)) =>
    /\ \A i \in 0..ChainLen : labels[GenNames[i + 1]] = i
    /\ Len(LUTs) = ChainLen

\* C9 amended: on a chain of n unary nodes above one PI the labels are 0 at
\* n0 and 1 at every other node, and the cover (with outputs auto-detected)
\* is the single LUT nn <= [n0] at level 1 when n >= 1, empty when n = 0.
C9_ChainAmended ==
  (pc = "done" /\ outputs = None /\ IsChain(graph)) =>
    /\ \A i \in 0..ChainLen :
         labels[GenNames[i + 1]] = IF i = 0 THEN 0 ELSE 1
    /\ LUTs = IF ChainLen = 0 THEN << >>
              ELSE << [output |-> GenNames[ChainLen + 1],
                       inputs |-> << GenNames[1] >>, level |-> 1] >>

\* C9 witness: a chain of at least two unary nodes has been mapped.
C9_Witness ==
  pc = "done" /\ outputs = None /\ IsChain(graph) /\ ChainLen >= 2

\* The nodes whose cut list is empty.
EmptyCutNodes == { v \in KeySet(graph) : node_cuts[v] = << >> }

\* The first node, in topological order, whose cut list is empty.
FirstEmpty ==
  LET order == topo_sort(graph).order
      i == MinOf({ k \in 1..Len(order) : node_cuts[order[k]] = << >> })
  IN order[i]

\* C10 as stated: the enumerator never returns a cut map in which some node
\* has an empty cut list (it fails with NoFeasibleCut instead).
C10_EnumeratorReports ==
  CutsReady => EmptyCutNodes = {}

\* C10 amended: the enumerator returns the cut map also when some cut list
\* in it is empty (the list is empty exactly when pruning left no cut); the
\* labeler then fails with the no-feasible-cut error at the first such node
\* in topological order and returns nothing, so labels, chosen cuts and a
\* cover exist only when no cut list is empty.  On S6 with K = 2 the failing
\* node is g.
C10_LabelerReports ==
  /\ CutsReady =>
       /\ \A v \in NonPIs : (node_cuts[v] = << >>) <=> (pruned[v] = << >>)
       /\ (EmptyCutNodes # {} /\ pc # "enumerated") =>
            /\ pc = "error"
            /\ err = "NoFeasibleCut"
            /\ errnode = FirstEmpty
            /\ labels = << >> /\ cut_depth = << >>
            /\ best_cut_area = << >> /\ LUTs = << >>
       /\ EmptyCutNodes = {} => pc # "error"
  /\ (pc \notin { "start", "enumerated" } /\ K = 2 /\ graph = GraphS6) =>
       pc = "error" /\ errnode = "g"

\* C10 witness: the labeler has failed on a graph with two empty cut lists.
C10_Witness ==
  /\ pc = "error"
  /\ err = "NoFeasibleCut"
  /\ Cardinality(EmptyCutNodes) >= 2

(* ------------------------------ topo_sort ----------------------------- *)
\* The nodes reachable from the set S along fanin edges, S included.
RECURSIVE FaninClosure(_, _)
FaninClosure(g, S) ==
  LET T == S \cup UNION { SeqToSet(g.fanins[v]) : v \in S }
  IN IF T = S THEN S ELSE FaninClosure(g, T)

\* The graph has a directed cycle: some node is its own transitive fanin.
HasCycle(g) ==
  \E v \in KeySet(g) : v \in FaninClosure(g, SeqToSet(g.fanins[v]))

\* topo_sort has returned or raised.
TopoDone == pc \in { "sorted", "error" }

\* Position of node n in the returned order.
PosIn(n) == CHOOSE i \in 1..Len(topo_order) : topo_order[i] = n

\* C11: topo_sort raises the cycle error exactly when the graph has a directed
\* cycle; otherwise the order holds every node exactly once, every node after
\* all of its fanins (repeated fanins included), and fanouts[u] holds w once
\* per occurrence of u in graph[w].
C11_TopoSortContract ==
  TopoDone =>
    /\ (err = "NotDAG") <=> HasCycle(graph)
    /\ (pc = "error") <=> (err = "NotDAG")
    /\ pc = "sorted" =>
         /\ Len(topo_order) = Len(graph.keys)
         /\ SeqToSet(topo_order) = KeySet(graph)
         /\ \A v \in KeySet(graph) : \A u \in SeqToSet(graph.fanins[v]) :
              PosIn(u) < PosIn(v)
         /\ DOMAIN topo_fanouts = KeySet(graph)
         /\ \A u \in KeySet(graph) : \A w \in KeySet(graph) :
              Cardinality({ i \in 1..Len(topo_fanouts[u]) :
                              topo_fanouts[u][i] = w })
                = Cardinality({ j \in 1..Len(graph.fanins[w]) :
                                  graph.fanins[w][j] = u })

\* C11 witness: an order was returned for a graph in which a node lists the
\* same fanin twice and is itself a fanin of a node listed after it.
C11_Witness ==
  /\ pc = "sorted"
  /\ \E v \in KeySet(graph) : \E u \in KeySet(graph) :
       /\ Cardinality({ j \in 1..Len(graph.fanins[v]) :
                          graph.fanins[v][j] = u }) >= 2
       /\ \E w \in KeySet(graph) :
            /\ v \in SeqToSet(graph.fanins[w])
            /\ IndexOf(graph.keys, w) < IndexOf(graph.keys, v)

(* --------------------------- area-flow tie-break ---------------------- *)
\* area_recovery has returned.
AreaDone == pc \in { "recovered", "done" }

\* The admissible cuts of v: depth via the cut does not exceed the label.
AdmCuts(v) == { C \in CutSet(v) : cut_depth[v][C] <= labels[v] }

\* 1 + the sum over the non-PI u of C of af(u) / refcount(u)
CostOf(C) == CutCost(C, PIs, area_flow, compute_refcounts(graph))

\* The admissible cuts of v of minimal area-flow cost.
MinCostCuts(v) ==
  { C \in AdmCuts(v) : \A D \in AdmCuts(v) : ~RLess(CostOf(D), CostOf(C)) }

\* C12: at every non-PI node where two or more admissible cuts attain the
\* minimal area-flow cost, area_recovery has chosen the one of smallest size
\* and, among those of equal size, of lexicographically smallest sorted tuple.
C12_TieBreakBySizeThenLex ==
  AreaDone =>
    \A v \in NonPIs :
      Cardinality(MinCostCuts(v)) >= 2 =>
        /\ best_cut_area[v] \in MinCostCuts(v)
        /\ \A D \in MinCostCuts(v) \ { best_cut_area[v] } :
             CutKeyLess(best_cut_area[v], D)
====
